---- MODULE Spec2Model ----
(***************************************************************************)
(* The asynchronous scrape job pipeline of backend/mindmap.py: the job     *)
(* table scrape_jobs, the six job endpoints and the background routine     *)
(* process_scrape_job (the second definition, lines 639-693, is the one    *)
(* the module binds at call time).                                         *)
(*                                                                         *)
(* Scheduling.  Every endpoint and process_scrape_job are `async def`      *)
(* coroutines served by the one event loop uvicorn.run starts (line 697),  *)
(* and none of them contains an await: once a coroutine has the loop it    *)
(* runs to its end before any other coroutine runs.  The background run is *)
(* modelled statement by statement (pc), with the variable `loop` naming   *)
(* the job whose run holds the loop; endpoints run only when it is free.   *)
(***************************************************************************)
EXTENDS Integers, Sequences, FiniteSets, TLC

\* Number of jobs submitted in a behaviour (job ids are 1..MaxJobs).
MaxJobs == 2

\* ScrapeRequest.summary_length default.
DefaultSummaryLength == 300

JobIds == 1..MaxJobs

\* Python's None, and a present Optional value.
None == << >>
Some(x) == <<x>>

NoJob == 0

VARIABLES
    scrape_jobs,   \* the ids that are keys of the dict scrape_jobs
    heap,          \* the JobData object created for each id (it outlives its dict entry)
    nextId,        \* number of ids allocated so far (uuid4 never repeats)
    pc,            \* position of each job's background run
    frame,         \* arguments and locals of each job's background run
    loop,          \* the job whose background run holds the event loop, or NoJob
    resp,          \* the response of the endpoint served by the last step, if any
    writes,        \* history: number of assignments to result, error, completed_at
    calls,         \* history: number of times each pipeline stage was invoked
    caught,        \* history: the exception each run's except clause caught, if any
    rendering      \* one call of the mind map renderer: its arguments and what it returned

vars == <<scrape_jobs, heap, nextId, pc, frame, loop, resp, writes, calls, caught, rendering>>

----------------------------------------------------------------------------
\* Data

\* JobData(job_id, status="queued", progress=0, created_at=now) with the defaults.
JobData(job_id) ==
    [job_id |-> job_id, status |-> "queued", progress |-> 0, result |-> None,
     error |-> None, created_at |-> "ts", completed_at |-> None]

\* An exception value; str(e) is its message.
Exc(type, msg) == [type |-> type, msg |-> msg]
str(e) == e.msg

Return(v) == [raised |-> FALSE, value |-> v]
Raise(e) == [raised |-> TRUE, exc |-> e]

\* WebScraper.scrape_content: every failure of the fetch or of the parse is
\* re-raised as Exception("Error scraping {url}: ...") or
\* Exception("Error processing content from {url}: ...").
scrape_content(outcome) ==
    CASE outcome = "ok" -> Return("content")
      [] outcome = "request_error" -> Raise(Exc("Exception", "Error scraping url"))
      [] OTHER -> Raise(Exc("Exception", "Error processing content from url"))

ScrapeOutcomes == {"ok", "request_error", "parse_error"}

\* ContentSummarizer.__init__: whether self.model is set.  configure failing, or
\* all three GenerativeModel attempts failing, leaves self.model = None.
ContentSummarizer(api_key, cfgOk, m1, m2, m3) ==
    IF api_key = None THEN FALSE
    ELSE IF ~cfgOk THEN FALSE
    ELSE m1 \/ m2 \/ m3

\* ContentSummarizer._extractive_summary: deterministic; `len(words) > max_length`
\* raises TypeError when summary_length was sent as null.
_extractive_summary(max_length) ==
    IF max_length = None
    THEN Raise(Exc("TypeError", "'>' not supported between instances of 'int' and 'NoneType'"))
    ELSE Return([summary |-> "extractive_summary", key_concepts |-> <<"extractive_concept">>,
                 method |-> "extractive"])

\* ContentSummarizer._extract_key_concepts_ai: a failed request is logged and
\* answered with the empty list.
_extract_key_concepts_ai(kcOk) ==
    IF kcOk THEN <<"ai_concept">> ELSE << >>

\* ContentSummarizer.summarize_content.
summarize_content(api_key, model, max_length, sumOk, kcOk) ==
    IF api_key = None \/ ~model THEN _extractive_summary(max_length)
    ELSE IF sumOk
         THEN Return([summary |-> "ai_summary",
                      key_concepts |-> _extract_key_concepts_ai(kcOk),
                      method |-> "ai_powered_gemini"])
         ELSE _extractive_summary(max_length)

\* Which AI call failed in a call of ContentSummarizer(...) then summarize_content(...).
AiFailure(api_key, model, sumOk, kcOk) ==
    IF api_key = None THEN "none"
    ELSE IF ~model THEN "init"
    ELSE IF ~sumOk THEN "summary"
    ELSE IF ~kcOk THEN "concepts"
    ELSE "none"

\* MindMapGenerator.create_mind_maps: the three renderings, pure.
create_mind_maps(title, summary, key_concepts) ==
    [visual |-> <<"visual", summary, key_concepts>>,
     network |-> <<"network", key_concepts>>,
     hierarchical |-> <<"hierarchical", key_concepts>>]

\* sanitize_filename + open + json.dump (lines 678-681).
persist(outcome) ==
    IF outcome = "ok" THEN Return("saved")
    ELSE Raise(Exc("OSError", "[Errno 36] File name too long"))

PersistOutcomes == {"ok", "os_error"}

NoFrame ==
    [api_key |-> None, summary_length |-> None, job |-> FALSE, model |-> FALSE,
     ai_failure |-> "none", content |-> None, summary_data |-> None,
     mind_maps |-> None, result |-> None, e |-> None]

NoResp == [op |-> "none", id |-> NoJob, code |-> 0, body |-> None]

NoWrites == [result |-> 0, error |-> 0, completed_at |-> 0]

\* The renderer has not been called.
NoRender == [title |-> "", summary |-> << >>, key_concepts |-> << >>,
             visual |-> None, hierarchical |-> None]

NoCalls == [fetch |-> 0, summarize |-> 0, render |-> 0, persist |-> 0]

----------------------------------------------------------------------------
Init ==
    /\ scrape_jobs = {}
    /\ heap = [j \in JobIds |-> JobData(j)]
    /\ nextId = 0
    /\ pc = [j \in JobIds |-> "idle"]
    /\ frame = [j \in JobIds |-> NoFrame]
    /\ loop = NoJob
    /\ resp = NoResp
    /\ writes = [j \in JobIds |-> NoWrites]
    /\ calls = [j \in JobIds |-> NoCalls]
    /\ caught = [j \in JobIds |-> None]
    /\ rendering = NoRender

\* A scheduler that may switch coroutines between any two statements (as threads would).
Preemptive == TRUE

\* No coroutine is in the middle of its body: the loop can start another one.
LoopFree == loop = NoJob


----------------------------------------------------------------------------
\* Endpoints.  Each is one coroutine without an await: one atomic step.

\* create_scrape_job that leaves the insertion into the table to the background task.
create_scrape_job_unstored(api_key, summary_length) ==
    /\ LoopFree
    /\ nextId < MaxJobs
    /\ LET job_id == nextId + 1 IN
        /\ nextId' = job_id
        /\ heap' = [heap EXCEPT ![job_id] = JobData(job_id)]
        /\ pc' = [pc EXCEPT ![job_id] = "scheduled"]
        /\ frame' = [frame EXCEPT ![job_id] =
                        [NoFrame EXCEPT !.api_key = api_key,
                                        !.summary_length = summary_length]]
        /\ resp' = [op |-> "submit", id |-> job_id, code |-> 200,
                    body |-> Some([job_id |-> job_id, status |-> "queued"])]
    /\ UNCHANGED <<scrape_jobs, loop, writes, calls, caught, rendering>>

\* POST /scrape
create_scrape_job(api_key, summary_length) ==
    /\ LoopFree
    /\ nextId < MaxJobs
    /\ LET job_id == nextId + 1 IN
        /\ nextId' = job_id
        /\ heap' = [heap EXCEPT ![job_id] = JobData(job_id)]
        /\ scrape_jobs' = scrape_jobs \cup {job_id}
        /\ pc' = [pc EXCEPT ![job_id] = "scheduled"]
        /\ frame' = [frame EXCEPT ![job_id] =
                        [NoFrame EXCEPT !.api_key = api_key,
                                        !.summary_length = summary_length]]
        /\ resp' = [op |-> "submit", id |-> job_id, code |-> 200,
                    body |-> Some([job_id |-> job_id, status |-> "queued"])]
    /\ UNCHANGED <<loop, writes, calls, caught, rendering>>

\* The JobStatus built from the fields of the stored object.
JobStatus(job) ==
    [job_id |-> job.job_id, status |-> job.status, progress |-> job.progress,
     result |-> job.result, error |-> job.error, created_at |-> job.created_at,
     completed_at |-> job.completed_at]

\* GET /job/{job_id}
get_job_status(job_id) ==
    /\ LoopFree
    /\ resp' = IF job_id \notin scrape_jobs
               THEN [op |-> "status", id |-> job_id, code |-> 404, body |-> None]
               ELSE [op |-> "status", id |-> job_id, code |-> 200,
                     body |-> Some(JobStatus(heap[job_id]))]
    /\ UNCHANGED <<scrape_jobs, heap, nextId, pc, frame, loop, writes, calls, caught, rendering>>

\* One entry of GET /jobs.
JobSummary(job) ==
    [job_id |-> job.job_id, status |-> job.status, progress |-> job.progress,
     created_at |-> job.created_at, completed_at |-> job.completed_at]

\* scrape_jobs.values() in insertion order: ids are inserted in increasing order.
RECURSIVE JobList(_)
JobList(n) ==
    IF n = 0 THEN << >>
    ELSE IF n \in scrape_jobs THEN Append(JobList(n - 1), JobSummary(heap[n]))
    ELSE JobList(n - 1)

\* GET /jobs
list_jobs ==
    /\ LoopFree
    /\ resp' = [op |-> "list", id |-> NoJob, code |-> 200,
                body |-> Some([total |-> Cardinality(scrape_jobs),
                               jobs |-> JobList(MaxJobs)])]
    /\ UNCHANGED <<scrape_jobs, heap, nextId, pc, frame, loop, writes, calls, caught, rendering>>

\* delete_job that empties the table instead of removing one key.
delete_job_clears(job_id) ==
    /\ LoopFree
    /\ IF job_id \notin scrape_jobs
       THEN /\ resp' = [op |-> "delete", id |-> job_id, code |-> 404, body |-> None]
            /\ scrape_jobs' = scrape_jobs
       ELSE /\ scrape_jobs' = {}
            /\ resp' = [op |-> "delete", id |-> job_id, code |-> 200,
                        body |-> Some("deleted")]
    /\ UNCHANGED <<heap, nextId, pc, frame, loop, writes, calls, caught, rendering>>

\* DELETE /job/{job_id}
delete_job(job_id) ==
    /\ LoopFree
    /\ IF job_id \notin scrape_jobs
       THEN /\ resp' = [op |-> "delete", id |-> job_id, code |-> 404, body |-> None]
            /\ scrape_jobs' = scrape_jobs
       ELSE /\ scrape_jobs' = scrape_jobs \ {job_id}
            /\ resp' = [op |-> "delete", id |-> job_id, code |-> 200,
                        body |-> Some("deleted")]
    /\ UNCHANGED <<heap, nextId, pc, frame, loop, writes, calls, caught, rendering>>

\* get_job_result without the status check.
get_job_result_unchecked(job_id) ==
    /\ LoopFree
    /\ resp' = IF job_id \notin scrape_jobs
               THEN [op |-> "result", id |-> job_id, code |-> 404, body |-> None]
               ELSE [op |-> "result", id |-> job_id, code |-> 200,
                     body |-> heap[job_id].result]
    /\ UNCHANGED <<scrape_jobs, heap, nextId, pc, frame, loop, writes, calls, caught, rendering>>

\* GET /job/{job_id}/result
get_job_result(job_id) ==
    /\ LoopFree
    /\ resp' = IF job_id \notin scrape_jobs
               THEN [op |-> "result", id |-> job_id, code |-> 404, body |-> None]
               ELSE IF heap[job_id].status # "completed"
               THEN [op |-> "result", id |-> job_id, code |-> 400, body |-> None]
               ELSE [op |-> "result", id |-> job_id, code |-> 200,
                     body |-> heap[job_id].result]
    /\ UNCHANGED <<scrape_jobs, heap, nextId, pc, frame, loop, writes, calls, caught, rendering>>

\* GET /job/{job_id}/mindmaps; job.result.get on None is an AttributeError (500).
get_job_mindmaps(job_id) ==
    /\ LoopFree
    /\ resp' = IF job_id \notin scrape_jobs
               THEN [op |-> "mindmaps", id |-> job_id, code |-> 404, body |-> None]
               ELSE IF heap[job_id].status # "completed"
               THEN [op |-> "mindmaps", id |-> job_id, code |-> 400, body |-> None]
               ELSE IF heap[job_id].result = None
               THEN [op |-> "mindmaps", id |-> job_id, code |-> 500, body |-> None]
               ELSE [op |-> "mindmaps", id |-> job_id, code |-> 200,
                     body |-> Some(heap[job_id].result[1].mind_maps)]
    /\ UNCHANGED <<scrape_jobs, heap, nextId, pc, frame, loop, writes, calls, caught, rendering>>

----------------------------------------------------------------------------
\* process_scrape_job(job_id, url, api_key, summary_length), lines 639-693.
\* A step of the run serves no endpoint: it leaves no response.

Goto(j, label) == pc' = [pc EXCEPT ![j] = label]

\* except Exception as e: (line 689)
Catch(j, f, e) ==
    /\ frame' = [frame EXCEPT ![j] = [f EXCEPT !.e = Some(e)]]
    /\ caught' = [caught EXCEPT ![j] = Some(e)]
    /\ Goto(j, "L691")

\* The coroutine ends (by return or by an uncaught exception): its locals are gone
\* and the event loop is free again.
Finish(j, label) ==
    /\ Goto(j, label)
    /\ frame' = [frame EXCEPT ![j] = NoFrame]
    /\ loop' = NoJob

\* line 642: job = scrape_jobs[job_id]; the run takes the event loop.
LookupJob(j) ==
    /\ LoopFree
    /\ pc[j] = "scheduled"
    /\ loop' = j
    /\ resp' = NoResp
    /\ IF j \in scrape_jobs
       THEN /\ frame' = [frame EXCEPT ![j].job = TRUE]
            /\ Goto(j, "L643")
            /\ caught' = caught
       ELSE Catch(j, frame[j], Exc("KeyError", "'job_id'"))
    /\ UNCHANGED <<scrape_jobs, heap, nextId, writes, calls, rendering>>

\* line 643: job.status = "processing"
SetProcessing(j) ==
    /\ pc[j] = "L643"
    /\ heap' = [heap EXCEPT ![j].status = "processing"]
    /\ Goto(j, "L644")
    /\ resp' = NoResp
    /\ UNCHANGED <<scrape_jobs, nextId, frame, loop, writes, calls, caught, rendering>>

\* line 644: job.progress = 10
SetProgress10(j) ==
    /\ pc[j] = "L644"
    /\ heap' = [heap EXCEPT ![j].progress = 10]
    /\ Goto(j, "L648")
    /\ resp' = NoResp
    /\ UNCHANGED <<scrape_jobs, nextId, frame, loop, writes, calls, caught, rendering>>

\* lines 647-649: the components; ContentSummarizer(api_key) initialises the AI client.
InitComponents(j) ==
    /\ pc[j] = "L648"
    /\ \E cfgOk, m1, m2, m3 \in BOOLEAN :
         LET model == ContentSummarizer(frame[j].api_key, cfgOk, m1, m2, m3) IN
         frame' = [frame EXCEPT ![j].model = model,
                                ![j].ai_failure =
                                    IF frame[j].api_key # None /\ ~model
                                    THEN "init" ELSE "none"]
    /\ Goto(j, "L653")
    /\ resp' = NoResp
    /\ UNCHANGED <<scrape_jobs, heap, nextId, loop, writes, calls, caught, rendering>>

\* `job.progress = 30` left out in front of the fetch.
SetProgress30_skipped(j) ==
    /\ pc[j] = "L653"
    /\ Goto(j, "L654")
    /\ resp' = NoResp
    /\ UNCHANGED <<scrape_jobs, heap, nextId, frame, loop, writes, calls, caught, rendering>>

\* line 653: job.progress = 30
SetProgress30(j) ==
    /\ pc[j] = "L653"
    /\ heap' = [heap EXCEPT ![j].progress = 30]
    /\ Goto(j, "L654")
    /\ resp' = NoResp
    /\ UNCHANGED <<scrape_jobs, nextId, frame, loop, writes, calls, caught, rendering>>

\* A fetch without its timeout (line 118 passes timeout=10): the call never returns.
Scrape_hanging(j) ==
    /\ pc[j] = "L654"
    /\ UNCHANGED vars

\* line 654: content = scraper.scrape_content(url)
Scrape(j) ==
    /\ pc[j] = "L654"
    /\ calls' = [calls EXCEPT ![j].fetch = @ + 1]
    /\ \E outcome \in ScrapeOutcomes :
         LET r == scrape_content(outcome) IN
         IF r.raised THEN Catch(j, frame[j], r.exc)
         ELSE /\ frame' = [frame EXCEPT ![j].content = Some(r.value)]
              /\ Goto(j, "L658")
              /\ caught' = caught
    /\ resp' = NoResp
    /\ UNCHANGED <<scrape_jobs, heap, nextId, loop, writes, rendering>>

\* line 658: job.progress = 60
SetProgress60(j) ==
    /\ pc[j] = "L658"
    /\ heap' = [heap EXCEPT ![j].progress = 60]
    /\ Goto(j, "L659")
    /\ resp' = NoResp
    /\ UNCHANGED <<scrape_jobs, nextId, frame, loop, writes, calls, caught, rendering>>

\* line 659: summary_data = summarizer.summarize_content(content, summary_length)
Summarize(j) ==
    /\ pc[j] = "L659"
    /\ calls' = [calls EXCEPT ![j].summarize = @ + 1]
    /\ \E sumOk, kcOk \in BOOLEAN :
         LET f == frame[j]
             r == summarize_content(f.api_key, f.model, f.summary_length, sumOk, kcOk)
             a == AiFailure(f.api_key, f.model, sumOk, kcOk)
         IN  IF r.raised
             THEN Catch(j, [f EXCEPT !.ai_failure = a], r.exc)
             ELSE /\ frame' = [frame EXCEPT ![j].ai_failure = a,
                                            ![j].summary_data = Some(r.value)]
                  /\ Goto(j, "L663")
                  /\ caught' = caught
    /\ resp' = NoResp
    /\ UNCHANGED <<scrape_jobs, heap, nextId, loop, writes, rendering>>

\* line 663: job.progress = 80
SetProgress80(j) ==
    /\ pc[j] = "L663"
    /\ heap' = [heap EXCEPT ![j].progress = 80]
    /\ Goto(j, "L664")
    /\ resp' = NoResp
    /\ UNCHANGED <<scrape_jobs, nextId, frame, loop, writes, calls, caught, rendering>>

\* lines 664-675: mind_maps = create_mind_maps(...); result = {...}
Render(j) ==
    /\ pc[j] = "L664"
    /\ calls' = [calls EXCEPT ![j].render = @ + 1]
    /\ LET sd == frame[j].summary_data[1]
           mm == create_mind_maps("title", sd.summary, sd.key_concepts)
       IN  frame' = [frame EXCEPT
                        ![j].mind_maps = Some(mm),
                        ![j].result = Some([scraped_content |-> frame[j].content[1],
                                            summary |-> sd, mind_maps |-> mm])]
    /\ Goto(j, "L678")
    /\ resp' = NoResp
    /\ UNCHANGED <<scrape_jobs, heap, nextId, loop, writes, caught, rendering>>

\* Persist with `job.result = result` moved in front of the write to disk.
Persist_after_attach(j) ==
    /\ pc[j] = "L678"
    /\ calls' = [calls EXCEPT ![j].persist = @ + 1]
    /\ heap' = [heap EXCEPT ![j].result = frame[j].result]
    /\ writes' = [writes EXCEPT ![j].result = @ + 1]
    /\ \E outcome \in PersistOutcomes :
         LET r == persist(outcome) IN
         IF r.raised THEN Catch(j, frame[j], r.exc)
         ELSE /\ Goto(j, "L683")
              /\ frame' = frame
              /\ caught' = caught
    /\ resp' = NoResp
    /\ UNCHANGED <<scrape_jobs, nextId, loop, rendering>>

\* lines 678-681: the result is written to scraped_data/<sanitized url>.json
Persist(j) ==
    /\ pc[j] = "L678"
    /\ calls' = [calls EXCEPT ![j].persist = @ + 1]
    /\ \E outcome \in PersistOutcomes :
         LET r == persist(outcome) IN
         IF r.raised THEN Catch(j, frame[j], r.exc)
         ELSE /\ Goto(j, "L683")
              /\ frame' = frame
              /\ caught' = caught
    /\ resp' = NoResp
    /\ UNCHANGED <<scrape_jobs, heap, nextId, loop, writes, rendering>>

\* line 683: job.result = result
SetResult(j) ==
    /\ pc[j] = "L683"
    /\ heap' = [heap EXCEPT ![j].result = frame[j].result]
    /\ writes' = [writes EXCEPT ![j].result = @ + 1]
    /\ Goto(j, "L684")
    /\ resp' = NoResp
    /\ UNCHANGED <<scrape_jobs, nextId, frame, loop, calls, caught, rendering>>

\* line 684: job.status = "completed"
SetCompleted(j) ==
    /\ pc[j] = "L684"
    /\ heap' = [heap EXCEPT ![j].status = "completed"]
    /\ Goto(j, "L685")
    /\ resp' = NoResp
    /\ UNCHANGED <<scrape_jobs, nextId, frame, loop, writes, calls, caught, rendering>>

\* The success path without `job.progress = 100`.
SetProgress100_skipped(j) ==
    /\ pc[j] = "L685"
    /\ Goto(j, "L686")
    /\ resp' = NoResp
    /\ UNCHANGED <<scrape_jobs, heap, nextId, frame, loop, writes, calls, caught, rendering>>

\* line 685: job.progress = 100
SetProgress100(j) ==
    /\ pc[j] = "L685"
    /\ heap' = [heap EXCEPT ![j].progress = 100]
    /\ Goto(j, "L686")
    /\ resp' = NoResp
    /\ UNCHANGED <<scrape_jobs, nextId, frame, loop, writes, calls, caught, rendering>>

\* lines 686-687: job.completed_at = now; the coroutine returns.
StampCompleted(j) ==
    /\ pc[j] = "L686"
    /\ heap' = [heap EXCEPT ![j].completed_at = Some("ts")]
    /\ writes' = [writes EXCEPT ![j].completed_at = @ + 1]
    /\ Finish(j, "done")
    /\ resp' = NoResp
    /\ UNCHANGED <<scrape_jobs, nextId, calls, caught, rendering>>

\* line 691: job.status = "failed".  When line 642 raised, the local `job` was
\* never bound: the handler itself raises UnboundLocalError, which nothing catches.
SetFailed(j) ==
    /\ pc[j] = "L691"
    /\ IF frame[j].job
       THEN /\ heap' = [heap EXCEPT ![j].status = "failed"]
            /\ Goto(j, "L692")
            /\ UNCHANGED <<frame, loop, rendering>>
       ELSE /\ heap' = heap
            /\ Finish(j, "crashed")
    /\ resp' = NoResp
    /\ UNCHANGED <<scrape_jobs, nextId, writes, calls, caught, rendering>>

\* The except clause without `job.error = str(e)`.
SetError_skipped(j) ==
    /\ pc[j] = "L692"
    /\ Goto(j, "L693")
    /\ resp' = NoResp
    /\ UNCHANGED <<scrape_jobs, heap, nextId, frame, loop, writes, calls, caught, rendering>>

\* line 692: job.error = str(e)
SetError(j) ==
    /\ pc[j] = "L692"
    /\ heap' = [heap EXCEPT ![j].error = Some(str(frame[j].e[1]))]
    /\ writes' = [writes EXCEPT ![j].error = @ + 1]
    /\ Goto(j, "L693")
    /\ resp' = NoResp
    /\ UNCHANGED <<scrape_jobs, nextId, frame, loop, calls, caught, rendering>>

\* The except clause without `job.completed_at = ...`.
StampFailed_unstamped(j) ==
    /\ pc[j] = "L693"
    /\ Finish(j, "done")
    /\ resp' = NoResp
    /\ UNCHANGED <<scrape_jobs, heap, nextId, writes, calls, caught, rendering>>

\* line 693: job.completed_at = now; the coroutine returns.
StampFailed(j) ==
    /\ pc[j] = "L693"
    /\ heap' = [heap EXCEPT ![j].completed_at = Some("ts")]
    /\ writes' = [writes EXCEPT ![j].completed_at = @ + 1]
    /\ Finish(j, "done")
    /\ resp' = NoResp
    /\ UNCHANGED <<scrape_jobs, nextId, calls, caught, rendering>>

----------------------------------------------------------------------------
ApiKeys == {None, Some("key")}
SummaryLengths == {None, Some(DefaultSummaryLength)}

Next ==
    \/ \E k \in ApiKeys, n \in SummaryLengths : create_scrape_job(k, n)
    \/ \E j \in JobIds : get_job_status(j)
    \/ list_jobs
    \/ \E j \in JobIds : delete_job(j)
    \/ \E j \in JobIds : get_job_result(j)
    \/ \E j \in JobIds : get_job_mindmaps(j)
    \/ \E j \in JobIds : LookupJob(j)
    \/ \E j \in JobIds : SetProcessing(j)
    \/ \E j \in JobIds : SetProgress10(j)
    \/ \E j \in JobIds : InitComponents(j)
    \/ \E j \in JobIds : SetProgress30(j)
    \/ \E j \in JobIds : Scrape(j)
    \/ \E j \in JobIds : SetProgress60(j)
    \/ \E j \in JobIds : Summarize(j)
    \/ \E j \in JobIds : SetProgress80(j)
    \/ \E j \in JobIds : Render(j)
    \/ \E j \in JobIds : Persist(j)
    \/ \E j \in JobIds : SetResult(j)
    \/ \E j \in JobIds : SetCompleted(j)
    \/ \E j \in JobIds : SetProgress100(j)
    \/ \E j \in JobIds : StampCompleted(j)
    \/ \E j \in JobIds : SetFailed(j)
    \/ \E j \in JobIds : SetError(j)
    \/ \E j \in JobIds : StampFailed(j)

Spec == Init /\ [][Next]_vars

\* One statement of the background run of job j.
RunStep(j) ==
    \/ LookupJob(j) \/ SetProcessing(j) \/ SetProgress10(j) \/ InitComponents(j)
    \/ SetProgress30(j) \/ Scrape(j) \/ SetProgress60(j) \/ Summarize(j)
    \/ SetProgress80(j) \/ Render(j) \/ Persist(j) \/ SetResult(j)
    \/ SetCompleted(j) \/ SetProgress100(j) \/ StampCompleted(j)
    \/ SetFailed(j) \/ SetError(j) \/ StampFailed(j)

\* background_tasks.add_task (lines 537-543): the server runs every scheduled task,
\* and every stage call returns or raises (the fetch has timeout=10).
FairSpec == Spec /\ \A j \in JobIds : WF_vars(RunStep(j))

-----------------------------------------------------------------------------
(***************************************************************************)
(* The mind map renderer, MindMapGenerator (lines 312-447): a pure         *)
(* function of the title, the summary and the key concepts.  A concept and *)
(* a title are strings.  A summary is the sequence of the lengths of the   *)
(* words summary.split() yields (line 379; each word is non-empty and      *)
(* holds no whitespace): the word wrap reads nothing of a word but its     *)
(* length.  An output line is a record of its parts, not a joined string.  *)
(***************************************************************************)
MaxConcepts == 4
MaxWords == 3

Titles == {"example domain", "News"}
ConceptNames == {"Alpha", "Beta"}
\* Word lengths on both sides of the widest word a line can hold.
WordLengths == {1, 36, 74, 75, 80}

SeqsUpTo(S, n) == UNION {[1..k -> S] : k \in 0..n}

\* str.upper() (lines 328 and 435)
upper(s) ==
    CASE s = "example domain" -> "EXAMPLE DOMAIN"
      [] s = "News" -> "NEWS"
      [] OTHER -> s

\* max (line 347)
max(a, b) == IF a >= b THEN a ELSE b

\* A split at the middle rounded up.
SplitPoint_ceil(key_concepts) == (Len(key_concepts) + 1) \div 2

\* lines 344-345: len(key_concepts)//2
SplitPoint(key_concepts) == Len(key_concepts) \div 2

\* line 344: key_concepts[:len(key_concepts)//2]
left_concepts(key_concepts) == SubSeq(key_concepts, 1, SplitPoint(key_concepts))

\* line 345: key_concepts[len(key_concepts)//2:]
right_concepts(key_concepts) ==
    SubSeq(key_concepts, SplitPoint(key_concepts) + 1, Len(key_concepts))

\* lines 349-370, row i (from 1): left_text and right_text are "" (here << >>) or
\* a marker and the concept; the formats <35 and >35 pad and never cut.
ConceptRow(left, right, i) ==
    [left_text  |-> IF i <= Len(left) THEN <<left[i]>> ELSE << >>,
     right_text |-> IF i <= Len(right) THEN <<right[i]>> ELSE << >>]

\* lines 339-370: the rows of the two columns, none when there is no concept
ConceptRows(key_concepts) ==
    LET left == left_concepts(key_concepts)
        right == right_concepts(key_concepts)
        max_rows == max(Len(left), Len(right))
    IN  IF key_concepts = << >> THEN << >>
        ELSE [i \in 1..max_rows |-> ConceptRow(left, right, i)]

\* line 383: the longest len(current_line + word + " ") that keeps the word on the line
WrapLimit == 77

\* lines 384 and 390: the column the closing bar is padded to
BoxWidth == 78

\* len(current_line): the two characters of the opening bar and a space (line 380),
\* then every word with the space after it (lines 385 and 387).
RECURSIVE len(_)
len(current_line) ==
    IF current_line = << >> THEN 2
    ELSE Head(current_line) + 1 + len(Tail(current_line))

\* lines 384 and 390: current_line + " " * (78 - len(current_line)) + bar; a string
\* times a negative number is the empty string.
BoxedLine(current_line) ==
    [words |-> current_line,
     pad   |-> max(0, BoxWidth - len(current_line))]

\* lines 382-390: the loop over the words, then the flush of the last line
RECURSIVE wrap(_, _, _)
wrap(summary_words, current_line, lines) ==
    IF summary_words = << >>
    THEN IF current_line # << >> THEN Append(lines, BoxedLine(current_line)) ELSE lines
    ELSE LET word == Head(summary_words) IN
         IF len(current_line) + word + 1 > WrapLimit
         THEN wrap(Tail(summary_words), <<word>>, Append(lines, BoxedLine(current_line)))
         ELSE wrap(Tail(summary_words), Append(current_line, word), lines)

\* lines 323-394, without the fixed frame lines
_generate_text_mindmap(title, summary, key_concepts) ==
    [title_content  |-> upper(title),
     left_concepts  |-> left_concepts(key_concepts),
     right_concepts |-> right_concepts(key_concepts),
     rows           |-> ConceptRows(key_concepts),
     summary_lines  |-> wrap(summary, << >>, << >>)]

\* A render whose test for the last concept is off by one: no line is the last.
_create_hierarchical_mindmap_no_last(title, key_concepts) ==
    <<[glyph |-> "blank", text |-> ""],
      [glyph |-> "tree", text |-> upper(title)],
      [glyph |-> "trunk", text |-> ""]>>
    \o [i \in 1..Len(key_concepts) |-> [glyph |-> "tee", text |-> key_concepts[i]]]

\* lines 429-447: "", the tree line, the trunk bar, then a line for each concept;
\* is_last (line 440) is i = Len(key_concepts) when i counts from 1.
_create_hierarchical_mindmap(title, key_concepts) ==
    <<[glyph |-> "blank", text |-> ""],
      [glyph |-> "tree", text |-> upper(title)],
      [glyph |-> "trunk", text |-> ""]>>
    \o [i \in 1..Len(key_concepts) |->
           [glyph |-> IF i = Len(key_concepts) THEN "corner" ELSE "tee",
            text  |-> key_concepts[i]]]

RenderInputs ==
    [title : Titles,
     summary : SeqsUpTo(WordLengths, MaxWords),
     key_concepts : SeqsUpTo(ConceptNames, MaxConcepts),
     visual : {None},
     hierarchical : {None}]

RenderInit ==
    /\ scrape_jobs = {}
    /\ heap = [j \in JobIds |-> JobData(j)]
    /\ nextId = 0
    /\ pc = [j \in JobIds |-> "idle"]
    /\ frame = [j \in JobIds |-> NoFrame]
    /\ loop = NoJob
    /\ resp = NoResp
    /\ writes = [j \in JobIds |-> NoWrites]
    /\ calls = [j \in JobIds |-> NoCalls]
    /\ caught = [j \in JobIds |-> None]
    /\ rendering \in RenderInputs

\* line 318: "visual": self._generate_text_mindmap(title, summary, key_concepts)
RenderVisual ==
    /\ rendering.visual = None
    /\ rendering' = [rendering EXCEPT !.visual =
           Some(_generate_text_mindmap(rendering.title, rendering.summary,
                                       rendering.key_concepts))]
    /\ UNCHANGED <<scrape_jobs, heap, nextId, pc, frame, loop, resp, writes, calls, caught>>

\* line 320: "hierarchical": self._create_hierarchical_mindmap(title, key_concepts)
RenderHierarchical ==
    /\ rendering.visual # None
    /\ rendering.hierarchical = None
    /\ rendering' = [rendering EXCEPT !.hierarchical =
           Some(_create_hierarchical_mindmap(rendering.title, rendering.key_concepts))]
    /\ UNCHANGED <<scrape_jobs, heap, nextId, pc, frame, loop, resp, writes, calls, caught>>

RenderNext ==
    \/ RenderVisual
    \/ RenderHierarchical

RenderSpec == RenderInit /\ [][RenderNext]_vars

----------------------------------------------------------------------------
\* Properties

Terminal(job) == job.status \in {"completed", "failed"}

\* The run of job j is not in the middle of its body: the fields of the job are
\* the ones an endpoint can read.
Settled(j) == loop # j

\* C1: in the state in which create_scrape_job returns the new job is in the store
\* with status queued, progress 0 and no result, error or completed_at, and stays so
\* until its background run starts; get_job_status answers NotFound only for an id
\* that is not in the store, and asked before the run starts it sees status queued
\* or processing, progress below 100 and neither result nor error; an entry leaves
\* the store only by delete_job.
SubmitVisible ==
    /\ resp.op = "submit" =>
          /\ resp.id \in scrape_jobs
          /\ heap[resp.id] = JobData(resp.id)
          /\ pc[resp.id] = "scheduled"
    /\ \A j \in JobIds :
          pc[j] = "scheduled" /\ j \in scrape_jobs =>
              /\ heap[j].status = "queued" /\ heap[j].progress = 0
              /\ heap[j].result = None /\ heap[j].error = None
              /\ heap[j].completed_at = None
    /\ resp.op = "status" =>
          /\ resp.code = 404 <=> resp.id \notin scrape_jobs
          /\ resp.code = 200 <=> resp.id \in scrape_jobs
          /\ resp.code = 200 /\ pc[resp.id] = "scheduled" =>
                /\ resp.body[1].status \in {"queued", "processing"}
                /\ resp.body[1].progress < 100
                /\ resp.body[1].result = None
                /\ resp.body[1].error = None

C1_SubmitVisible ==
    /\ []SubmitVisible
    /\ [][\A j \in scrape_jobs \ scrape_jobs' :
            resp'.op = "delete" /\ resp'.id = j]_vars

C1_Witness ==
    /\ resp.op = "status" /\ resp.code = 200
    /\ pc[resp.id] = "scheduled"
    /\ resp.body[1].status = "queued" /\ resp.body[1].progress = 0

\* C2: a job's progress never decreases in any step; progress 100 is only ever
\* held by a completed job, and a completed job whose run has ended has progress 100.
C2_ProgressMonotone ==
    /\ [](\A j \in JobIds :
            /\ heap[j].progress = 100 => heap[j].status = "completed"
            /\ heap[j].status = "completed" /\ Settled(j) => heap[j].progress = 100)
    /\ [][\A j \in JobIds : heap'[j].progress >= heap[j].progress]_vars

C2_Witness ==
    \E j \in JobIds, k \in JobIds :
        /\ loop = NoJob
        /\ heap[j].status = "completed" /\ heap[j].progress = 100
        /\ heap[k].status = "failed" /\ heap[k].progress = 60

\* C3: result and error are never both present; each is assigned at most once, and
\* once present it is never changed or cleared.
C3_ResultErrorExclusive ==
    /\ [](\A j \in JobIds :
            /\ ~(heap[j].result # None /\ heap[j].error # None)
            /\ writes[j].result <= 1 /\ writes[j].error <= 1)
    /\ [][\A j \in JobIds :
            /\ heap[j].result # None => heap'[j].result = heap[j].result
            /\ heap[j].error # None => heap'[j].error = heap[j].error]_vars

C3_Witness ==
    \E j \in JobIds, k \in JobIds :
        /\ pc[j] = "done" /\ heap[j].result # None /\ heap[j].error = None
        /\ writes[j].result = 1
        /\ pc[k] = "done" /\ heap[k].error # None /\ heap[k].result = None
        /\ writes[k].error = 1

\* C4: status only steps queued -> processing -> completed or failed; a terminal job
\* whose run has ended is never changed again by any step; completed_at is assigned
\* at most once, only to a terminal job, and is present once the run has ended.
C4_TerminalIsFinal ==
    /\ [](\A j \in JobIds :
            /\ writes[j].completed_at <= 1
            /\ heap[j].completed_at # None => Terminal(heap[j])
            /\ Terminal(heap[j]) /\ Settled(j) => heap[j].completed_at # None)
    /\ [][\A j \in JobIds :
            /\ heap'[j].status # heap[j].status =>
                  \/ heap[j].status = "queued" /\ heap'[j].status = "processing"
                  \/ heap[j].status = "processing" /\ Terminal(heap'[j])
            /\ Terminal(heap[j]) /\ Settled(j) => heap'[j] = heap[j]]_vars

C4_Witness ==
    /\ resp.op \in {"status", "result", "list"}
    /\ \E j \in JobIds, k \in JobIds :
          /\ j \in scrape_jobs /\ k \in scrape_jobs
          /\ heap[j].status = "completed" /\ heap[k].status = "failed"
          /\ heap[j].completed_at # None /\ heap[k].completed_at # None
          /\ writes[j].completed_at = 1 /\ writes[k].completed_at = 1

\* The exception of job j's run was raised by a pipeline stage (not by the lookup).
StageRaised(j) == caught[j] # None /\ caught[j][1].type # "KeyError"

\* C5: when a stage raises, the run goes to its except clause and on to its end,
\* where the job is failed with a non-empty error, completed_at set and no result;
\* no stage is invoked after the raise and no stage is ever invoked twice.
C5_StageFailureIsTerminal ==
    /\ [](\A j \in JobIds :
            /\ \A s \in DOMAIN calls[j] : calls[j][s] <= 1
            /\ StageRaised(j) =>
                  /\ pc[j] \in {"L691", "L692", "L693", "done"}
                  /\ heap[j].result = None
                  /\ pc[j] = "done" =>
                        /\ heap[j].status = "failed"
                        /\ heap[j].error # None /\ heap[j].error[1] # ""
                        /\ heap[j].completed_at # None)
    /\ [][\A j \in JobIds : StageRaised(j) => calls'[j] = calls[j]]_vars

C5_Witness ==
    \E j \in JobIds :
        /\ pc[j] = "done" /\ StageRaised(j) /\ caught[j][1].type = "OSError"
        /\ heap[j].status = "failed" /\ heap[j].error = Some(str(caught[j][1]))
        /\ calls[j].persist = 1

\* C6: get_job_result and get_job_mindmaps answer with a payload exactly when the
\* id is in the store and the job is completed (the stored result, or its mind
\* maps); NotFound exactly when the id is not in the store; InvalidState with no
\* payload for a stored job that is not completed; and they change nothing.
C6_ResultOnlyWhenCompleted ==
    /\ [](resp.op \in {"result", "mindmaps"} =>
            /\ resp.code \in {200, 400, 404}
            /\ resp.code = 404 <=> resp.id \notin scrape_jobs
            /\ resp.code = 200 <=>
                  resp.id \in scrape_jobs /\ heap[resp.id].status = "completed"
            /\ resp.code # 200 => resp.body = None
            /\ resp.code = 200 =>
                  /\ heap[resp.id].result # None
                  /\ resp.op = "result" => resp.body = heap[resp.id].result
                  /\ resp.op = "mindmaps" =>
                        resp.body = Some(heap[resp.id].result[1].mind_maps))
    /\ [][resp'.op \in {"result", "mindmaps"} =>
            /\ scrape_jobs' = scrape_jobs /\ heap' = heap /\ pc' = pc]_vars

C6_Witness ==
    /\ resp.op = "result" /\ resp.code = 400 /\ resp.body = None
    /\ heap[resp.id].status = "failed"
    /\ \E k \in scrape_jobs : heap[k].status = "completed"

\* C7: delete_job on a stored id removes exactly that entry and changes no job
\* object; on an absent id it answers NotFound and changes nothing; an entry leaves
\* the store only by delete_job, an id enters it only as the fresh id of
\* create_scrape_job, and every job endpoint answers NotFound for an absent id.
C7_DeleteExactlyOne ==
    /\ [](resp.op \in {"status", "result", "mindmaps"} /\ resp.id \notin scrape_jobs
            => resp.code = 404)
    /\ [][/\ resp'.op = "delete" =>
                /\ heap' = heap
                /\ IF resp'.id \in scrape_jobs
                   THEN /\ resp'.code = 200
                        /\ scrape_jobs' = scrape_jobs \ {resp'.id}
                   ELSE /\ resp'.code = 404
                        /\ scrape_jobs' = scrape_jobs
          /\ \A j \in scrape_jobs \ scrape_jobs' :
                resp' = [op |-> "delete", id |-> j, code |-> 200, body |-> Some("deleted")]
          /\ \A j \in scrape_jobs' \ scrape_jobs :
                resp'.op = "submit" /\ resp'.id = j /\ j > nextId]_vars

C7_Witness ==
    /\ resp.op = "delete" /\ resp.code = 200
    /\ resp.id \notin scrape_jobs
    /\ scrape_jobs # {}

\* C8 (as claimed): the background run of a job that was deleted before the run
\* started is a no-op: it does not end with an exception that nothing handles, and
\* the deleted job's object is left as it was.
C8_DeletedRunIsNoOp ==
    \A j \in JobIds :
        j <= nextId /\ j \notin scrape_jobs =>
            /\ pc[j] # "crashed"
            /\ heap[j] = JobData(j) \/ pc[j] = "done"

\* A consistent field group of a job, as a reader may see it.
ConsistentSnapshot(r) ==
    /\ r.result # None => r.status = "completed"
    /\ r.status = "completed" =>
          r.progress = 100 /\ r.completed_at # None /\ r.result # None
    /\ r.status = "failed" => r.error # None /\ r.completed_at # None
    /\ r.status \in {"queued", "processing"} =>
          r.result = None /\ r.error = None /\ r.completed_at = None

\* The same for an entry of list_jobs, which carries no result or error.
ConsistentSummary(r) ==
    /\ r.status = "completed" => r.progress = 100 /\ r.completed_at # None
    /\ r.status = "failed" => r.completed_at # None /\ r.progress < 100
    /\ r.status \in {"queued", "processing"} => r.completed_at = None

\* C9: whatever a reader is answered shows a whole field group: never a result
\* with a status other than completed, never completed with progress below 100 or
\* no completed_at, never failed without error or completed_at; a result endpoint
\* that answers 200 returns a present result.
C9_ReadersSeeSnapshots ==
    /\ resp.op = "status" /\ resp.code = 200 => ConsistentSnapshot(resp.body[1])
    /\ resp.op = "list" =>
          \A i \in 1..Len(resp.body[1].jobs) : ConsistentSummary(resp.body[1].jobs[i])
    /\ resp.op \in {"result", "mindmaps"} /\ resp.code = 200 => resp.body # None

C9_Witness ==
    /\ resp.op = "status" /\ resp.code = 200
    /\ resp.body[1].status = "completed" /\ resp.body[1].progress = 100
    /\ resp.body[1].result # None /\ resp.body[1].completed_at # None

\* The stage at which the run of job j raised: the last one invoked.
RaisedIn(j, stage) ==
    /\ frame[j].e # None
    /\ calls[j][stage] = 1
    /\ \A s \in DOMAIN calls[j] :
          calls[j][s] = 1 => <<s, stage>> \in
              {<<"fetch", "fetch">>, <<"fetch", "summarize">>, <<"fetch", "render">>,
               <<"fetch", "persist">>, <<"summarize", "summarize">>,
               <<"summarize", "render">>, <<"summarize", "persist">>,
               <<"render", "render">>, <<"render", "persist">>,
               <<"persist", "persist">>}

\* C10 (as claimed): after any failure of the AI capability (client initialisation,
\* summary request, key-concept request) summarize does not raise and its result
\* is tagged extractive.
C10_AiFailureAlwaysExtractive ==
    \A j \in JobIds :
        frame[j].ai_failure # "none" =>
            /\ ~RaisedIn(j, "summarize")
            /\ frame[j].summary_data # None =>
                  frame[j].summary_data[1].method = "extractive"

\* C10 (what the code does): a failure at client initialisation or at the summary request
\* sends summarize to the extractive path (tag extractive); a failure of the
\* key-concept request alone is swallowed (AI summary, empty key concepts, tag
\* ai_powered_gemini); the tag is ai_powered_gemini exactly when the client was
\* initialised and the summary request succeeded; and summarize raises only as the
\* extractive path does, on a null summary length, never on an AI failure itself.
C10_AiFailureHandling ==
    \A j \in JobIds :
        LET f == frame[j] IN
        /\ f.summary_data # None =>
              LET sd == f.summary_data[1] IN
              /\ f.ai_failure \in {"init", "summary"} =>
                    sd.method = "extractive" /\ sd = _extractive_summary(f.summary_length).value
              /\ f.ai_failure = "concepts" =>
                    /\ sd.method = "ai_powered_gemini"
                    /\ sd.summary = "ai_summary"
                    /\ sd.key_concepts = << >>
              /\ sd.method \in {"extractive", "ai_powered_gemini"}
              /\ sd.method = "ai_powered_gemini" <=>
                    f.api_key # None /\ f.model /\ f.ai_failure \notin {"init", "summary"}
        /\ RaisedIn(j, "summarize") =>
              /\ f.e[1].type = "TypeError"
              /\ f.summary_length = None
              /\ f.api_key = None \/ f.ai_failure \in {"init", "summary"}
        /\ f.ai_failure # "none" /\ f.summary_length # None => ~RaisedIn(j, "summarize")

C10_Witness ==
    \E j \in JobIds :
        /\ pc[j] = "L686"
        /\ frame[j].ai_failure = "summary"
        /\ heap[j].status = "completed" /\ heap[j].progress = 100
        /\ heap[j].result[1].summary.method = "extractive"

C14_CheckpointAfterStage ==
    \A j \in JobIds :
        /\ pc[j] = "L654" => heap[j].progress = 10
        /\ heap[j].progress >= 30 => frame[j].content # None \/ pc[j] = "done"
        /\ pc[j] = "L659" => heap[j].progress = 30
        /\ pc[j] = "L664" => heap[j].progress = 60
        /\ pc[j] = "L678" => heap[j].progress = 80

\* The progress a failed job ends with, by the stage that raised.
FinalProgress(type) ==
    CASE type = "Exception" -> 30
      [] type = "TypeError" -> 60
      [] type = "OSError" -> 80

\* C14 (amended): each checkpoint is written before the stage it announces:
\* progress is 10 while the components are built, 30 while the fetch is in flight,
\* 60 during summarize, 80 during render and persist, and 100 only after persist
\* succeeded; a job whose fetch fails ends failed with progress 30, one whose
\* summarize fails with 60, one whose persist fails with 80.
C14_CheckpointBeforeStage ==
    \A j \in JobIds :
        /\ pc[j] = "L648" => heap[j].progress = 10
        /\ pc[j] = "L654" => heap[j].progress = 30 /\ calls[j].fetch = 0
        /\ pc[j] = "L659" => heap[j].progress = 60 /\ calls[j].summarize = 0
        /\ pc[j] = "L664" => heap[j].progress = 80 /\ calls[j].render = 0
        /\ pc[j] = "L678" => heap[j].progress = 80 /\ calls[j].persist = 0
        /\ heap[j].progress = 100 => calls[j].persist = 1 /\ caught[j] = None
        /\ pc[j] = "done" /\ StageRaised(j) =>
              /\ heap[j].status = "failed"
              /\ heap[j].progress = FinalProgress(caught[j][1].type)

C14_Witness ==
    \E j \in JobIds, k \in JobIds :
        /\ pc[j] = "done" /\ heap[j].status = "failed" /\ heap[j].progress = 30
        /\ caught[j] # None /\ caught[j][1].msg = "Error scraping url"
        /\ calls[j] = [fetch |-> 1, summarize |-> 0, render |-> 0, persist |-> 0]
        /\ pc[k] = "L654" /\ heap[k].progress = 30

\* The lines the word wrap emitted and the hierarchical render, once rendered.
SummaryLines == rendering.visual[1].summary_lines

HierarchicalLines == rendering.hierarchical[1]

RECURSIVE Flatten(_)
Flatten(lines) ==
    IF lines = << >> THEN << >> ELSE Head(lines).words \o Flatten(Tail(lines))

\* C12 (as claimed): every line the summary word wrap emits has content no wider
\* than the 77-character budget, whatever the lengths of the words, and no emitted
\* line is empty of words.
C12_WrapWithinBudget ==
    rendering.visual # None =>
        \A i \in 1..Len(SummaryLines) :
            /\ len(SummaryLines[i].words) <= WrapLimit
            /\ SummaryLines[i].words # << >>

\* C12 (what the code does): the wrap keeps every word whole and in order; when no
\* word is longer than 74 characters every line is within the budget, holds a
\* word, and is padded to column 78.
C12_WrapOfShortWords ==
    rendering.visual # None =>
        /\ Flatten(SummaryLines) = rendering.summary
        /\ (\A k \in 1..Len(rendering.summary) : rendering.summary[k] <= WrapLimit - 3) =>
              \A i \in 1..Len(SummaryLines) :
                  /\ len(SummaryLines[i].words) <= WrapLimit
                  /\ SummaryLines[i].words # << >>
                  /\ len(SummaryLines[i].words) + SummaryLines[i].pad = BoxWidth

\* C13 (as claimed): for n >= 1 concepts the hierarchical render is exactly n + 1
\* lines: the root line, then a branch line for each concept in order, the last
\* with the terminal glyph and the others with the non-terminal glyph.
C13_RootPlusBranches ==
    rendering.hierarchical # None /\ Len(rendering.key_concepts) >= 1 =>
        LET n == Len(rendering.key_concepts) IN
        /\ Len(HierarchicalLines) = n + 1
        /\ HierarchicalLines[1].glyph = "tree"
        /\ \A i \in 1..n :
              /\ HierarchicalLines[1 + i].text = rendering.key_concepts[i]
              /\ HierarchicalLines[1 + i].glyph = IF i = n THEN "corner" ELSE "tee"

\* C13 (amended): for n >= 1 concepts the hierarchical render is exactly n + 3
\* lines: an empty line, the root line with the title in upper case, a trunk line,
\* then a branch line for each concept in input order, none cut or left out, the
\* last with the terminal glyph and every earlier one with the non-terminal glyph.
C13_FramedBranches ==
    rendering.hierarchical # None /\ Len(rendering.key_concepts) >= 1 =>
        LET n == Len(rendering.key_concepts) IN
        /\ Len(HierarchicalLines) = n + 3
        /\ HierarchicalLines[1] = [glyph |-> "blank", text |-> ""]
        /\ HierarchicalLines[2] = [glyph |-> "tree", text |-> upper(rendering.title)]
        /\ HierarchicalLines[3] = [glyph |-> "trunk", text |-> ""]
        /\ \A i \in 1..n :
              /\ HierarchicalLines[3 + i].text = rendering.key_concepts[i]
              /\ HierarchicalLines[3 + i].glyph = IF i = n THEN "corner" ELSE "tee"

C13_Witness ==
    /\ rendering.hierarchical # None
    /\ rendering.title = "News"
    /\ rendering.key_concepts = <<"Alpha", "Beta", "Alpha">>
    /\ Len(HierarchicalLines) = 6
    /\ HierarchicalLines[2].text = "NEWS"
    /\ HierarchicalLines[5].glyph = "tee"
    /\ HierarchicalLines[6] = [glyph |-> "corner", text |-> "Alpha"]

\* The parts of a visual render the column layout is made of.
Columns == rendering.visual[1]

RowsPairColumns ==
    /\ Len(Columns.rows) = max(Len(Columns.left_concepts), Len(Columns.right_concepts))
    /\ \A i \in 1..Len(Columns.rows) :
          /\ Columns.rows[i].left_text =
                IF i <= Len(Columns.left_concepts)
                THEN <<Columns.left_concepts[i]>> ELSE << >>
          /\ Columns.rows[i].right_text =
                IF i <= Len(Columns.right_concepts)
                THEN <<Columns.right_concepts[i]>> ELSE << >>

\* C15 (as claimed): the two columns hold every concept once in input order, the
\* left column takes the middle concept when n is odd (one more than the right),
\* and max(len(left), len(right)) rows pair left[i] with right[i].
C15_LeftTakesMiddle ==
    rendering.visual # None /\ Len(rendering.key_concepts) >= 1 =>
        LET n == Len(rendering.key_concepts) IN
        /\ Columns.left_concepts \o Columns.right_concepts = rendering.key_concepts
        /\ Len(Columns.left_concepts) = Len(Columns.right_concepts) + (n % 2)
        /\ RowsPairColumns

\* C15 (amended): the two columns hold every concept once in input order, the left
\* column is the first n div 2 concepts, so the right column takes the middle
\* concept when n is odd (one more than the left); max(len(left), len(right)) =
\* len(right) rows are emitted, row i pairing left[i] with right[i] where both
\* exist and holding right[i] alone in the last row when n is odd.
C15_RightTakesMiddle ==
    rendering.visual # None /\ Len(rendering.key_concepts) >= 1 =>
        LET n == Len(rendering.key_concepts) IN
        /\ Columns.left_concepts \o Columns.right_concepts = rendering.key_concepts
        /\ Len(Columns.left_concepts) = n \div 2
        /\ Len(Columns.right_concepts) = Len(Columns.left_concepts) + (n % 2)
        /\ Len(Columns.rows) = Len(Columns.right_concepts)
        /\ RowsPairColumns

C15_Witness ==
    /\ rendering.visual # None
    /\ rendering.key_concepts = <<"Alpha", "Beta", "Beta">>
    /\ Columns.left_concepts = <<"Alpha">>
    /\ Columns.right_concepts = <<"Beta", "Beta">>
    /\ Len(Columns.rows) = 2
    /\ Columns.rows[1] = [left_text |-> <<"Alpha">>, right_text |-> <<"Beta">>]
    /\ Columns.rows[2] = [left_text |-> << >>, right_text |-> <<"Beta">>]

====
